---- MODULE Spec2Model ----
(***************************************************************************)
(* Model of the extended_fizzbuzz crate: Matcher (src/src/matcher.rs) and  *)
(* the functions line and fizzbuzz (src/src/lib.rs).                       *)
(*                                                                         *)
(* A String is a sequence of one-character strings.  usize is scaled down  *)
(* to UsizeBits bits; arithmetic that can leave the type is reduced modulo *)
(* 2^UsizeBits (release build) or panics (build with overflow checks).     *)
(***************************************************************************)
EXTENDS Integers, Sequences, FiniteSets, TLC

\* ------------------------------------------------------------------ bounds
UsizeBits == 4
MaxNumber == 3
MaxDivisor == 2
MaxMatchers == 2
MaxSpan == 1

USIZE_MAX == (2 ^ UsizeBits) - 1

\* Numbers handed to the functions: small values and the top of usize.
Numbers == (0 .. MaxNumber) \cup {USIZE_MAX}

\* Divisors handed to Matcher::new, 0 included.
Divisors == 0 .. MaxDivisor

Fizz == <<"F", "z">>
Buzz == <<"B", "z">>
Words == {<<>>, Fizz, Buzz}

\* ------------------------------------------------------------------ state
VARIABLES
    matchers,         \* the caller's Vec<Matcher>, in order
    overflow_checks,  \* TRUE: the build panics on overflow; FALSE: it wraps
    pc,               \* "idle" | "loop" (inside fizzbuzz's for) | "panicked"
    i,                \* fizzbuzz's loop variable
    end,              \* fizzbuzz's exclusive upper bound, to + 1
    stdout,           \* the lines the latest call has printed
    ret               \* the latest call: [op, args, value]

vars == <<matchers, overflow_checks, pc, i, end, stdout, ret>>

\* ------------------------------------------------------------ matcher.rs
NumberIsZero == [kind |-> "NumberIsZero"]

Ok(v) == [ok |-> TRUE, val |-> v]
Err(e) == [ok |-> FALSE, err |-> e]

Matcher_new_unchecked(number, word) ==
    Ok([number |-> number, word |-> word])

Matcher_new_drops_word(number, word) ==
    IF number = 0
      THEN Err(NumberIsZero)
      ELSE Ok([number |-> number, word |-> <<>>])

Matcher_new(number, word) ==
    IF number = 0
      THEN Err(NumberIsZero)
      ELSE Ok([number |-> number, word |-> word])

matches_inverted(self, number) ==
    number % self.number # 0

matches(self, number) ==
    number % self.number = 0

text_always(self, number) ==
    self.word

text(self, number) ==
    IF matches(self, number) THEN self.word ELSE <<>>

\* ---------------------------------------------------------------- lib.rs
DIGITS == <<"0", "1", "2", "3", "4", "5", "6", "7", "8", "9">>

RECURSIVE to_string(_)
to_string(n) ==
    IF n < 10
      THEN <<DIGITS[n + 1]>>
      ELSE to_string(n \div 10) \o <<DIGITS[(n % 10) + 1]>>

\* for m in matchers.iter() { out += m.text(number); }, from index k on
RECURSIVE line_loop_prepend(_, _, _, _)
line_loop_prepend(out, k, number, ms) ==
    IF k > Len(ms)
      THEN out
      ELSE line_loop_prepend(text(ms[k], number) \o out, k + 1, number, ms)

RECURSIVE line_loop(_, _, _, _)
line_loop(out, k, number, ms) ==
    IF k > Len(ms)
      THEN out
      ELSE line_loop(out \o text(ms[k], number), k + 1, number, ms)

line_no_fallback(number, ms) ==
    line_loop(<<>>, 1, number, ms)

line_fallback_on_no_match(number, ms) ==
    IF \E k \in 1 .. Len(ms) : matches(ms[k], number)
      THEN line_loop(<<>>, 1, number, ms)
      ELSE to_string(number)

line(number, ms) ==
    LET out == line_loop(<<>>, 1, number, ms)
    IN  IF out = <<>> THEN to_string(number) ELSE out

FromBiggerThanTo_swapped(from, to) ==
    [kind |-> "FromBiggerThanTo", from |-> to, to |-> from]

FromBiggerThanTo(from, to) ==
    [kind |-> "FromBiggerThanTo", from |-> from, to |-> to]

Unit == <<>>
Running == [state |-> "running"]
Panicked == [state |-> "panicked"]

\* ---------------------------------------------------------------- actions
Init ==
    /\ matchers = <<>>
    /\ overflow_checks \in BOOLEAN
    /\ pc = "idle"
    /\ i = 0
    /\ end = 0
    /\ stdout = <<>>
    /\ ret = [op |-> "none", args |-> <<>>, value |-> Unit]

\* The caller builds its list: Matcher::new(number, word), pushed when Ok.
New(number, word) ==
    /\ pc = "idle"
    /\ Len(matchers) < MaxMatchers
    /\ LET r == Matcher_new(number, word)
       IN  /\ ret' = [op |-> "new", args |-> <<number, word>>, value |-> r]
           /\ matchers' = IF r.ok THEN Append(matchers, r.val) ELSE matchers
    /\ stdout' = <<>>
    /\ UNCHANGED <<overflow_checks, pc, i, end>>

\* matchers[k].matches(number)
Matches(k, number) ==
    /\ pc = "idle"
    /\ ret' = [op |-> "matches", args |-> <<matchers[k], number>>,
               value |-> matches(matchers[k], number)]
    /\ stdout' = <<>>
    /\ UNCHANGED <<matchers, overflow_checks, pc, i, end>>

\* matchers[k].text(number)
Text(k, number) ==
    /\ pc = "idle"
    /\ ret' = [op |-> "text", args |-> <<matchers[k], number>>,
               value |-> text(matchers[k], number)]
    /\ stdout' = <<>>
    /\ UNCHANGED <<matchers, overflow_checks, pc, i, end>>

\* line(number, &matchers)
Line(number) ==
    /\ pc = "idle"
    /\ ret' = [op |-> "line", args |-> <<number, matchers>>,
               value |-> line(number, matchers)]
    /\ stdout' = <<>>
    /\ UNCHANGED <<matchers, overflow_checks, pc, i, end>>

\* fizzbuzz(from, to, &matchers) up to the first iteration of its loop:
\* the from > to check, then the range from..(to + 1).
FizzbuzzCall(from, to) ==
    /\ pc = "idle"
    /\ stdout' = <<>>
    /\ IF from > to
         THEN /\ ret' = [op |-> "fizzbuzz", args |-> <<from, to, matchers>>,
                         value |-> Err(FromBiggerThanTo(from, to))]
              /\ UNCHANGED <<pc, i, end>>
         ELSE IF to + 1 > USIZE_MAX /\ overflow_checks
                THEN /\ pc' = "panicked"
                     /\ ret' = [op |-> "fizzbuzz",
                                args |-> <<from, to, matchers>>,
                                value |-> Panicked]
                     /\ UNCHANGED <<i, end>>
                ELSE /\ pc' = "loop"
                     /\ i' = from
                     /\ end' = (to + 1) % (2 ^ UsizeBits)
                     /\ ret' = [op |-> "fizzbuzz",
                                args |-> <<from, to, matchers>>,
                                value |-> Running]
    /\ UNCHANGED <<matchers, overflow_checks>>

\* One iteration: println!("{}", line(i, matchers))
FizzbuzzStep ==
    /\ pc = "loop"
    /\ i < end
    /\ stdout' = Append(stdout, line(i, matchers))
    /\ i' = i + 1
    /\ UNCHANGED <<matchers, overflow_checks, pc, end, ret>>

\* The range is exhausted: the loop's locals go, Ok(())
FizzbuzzReturn ==
    /\ pc = "loop"
    /\ i >= end
    /\ pc' = "idle"
    /\ i' = 0
    /\ end' = 0
    /\ ret' = [ret EXCEPT !.value = Ok(Unit)]
    /\ UNCHANGED <<matchers, overflow_checks, stdout>>

Next ==
    \/ \E number \in Divisors, word \in Words : New(number, word)
    \/ \E k \in 1 .. Len(matchers), number \in Numbers : Matches(k, number)
    \/ \E k \in 1 .. Len(matchers), number \in Numbers : Text(k, number)
    \/ \E number \in Numbers : Line(number)
    \/ \E from \in Numbers, to \in Numbers :
          /\ to - from <= MaxSpan
          /\ FizzbuzzCall(from, to)
    \/ FizzbuzzStep
    \/ FizzbuzzReturn

Spec == Init /\ [][Next]_vars

\* ------------------------------------------------ vocabulary of the claims
\* d divides n, stated without the remainder operator.
Divides(d, n) == \E q \in 0 .. n : q * d = n

AnyMatch(ms, n) == \E k \in 1 .. Len(ms) : Divides(ms[k].number, n)

\* The words of the matchers of ms whose divisor divides n, in list order.
MatchingWords(ms, n) ==
    LET hit(m) == Divides(m.number, n)
        sel == SelectSeq(ms, hit)
    IN  [k \in 1 .. Len(sel) |-> sel[k].word]

RECURSIVE Flatten(_)
Flatten(ss) == IF ss = <<>> THEN <<>> ELSE Head(ss) \o Flatten(Tail(ss))

Reverse(s) == [k \in 1 .. Len(s) |-> s[Len(s) + 1 - k]]

IsDigit(c) == \E d \in 1 .. 10 : DIGITS[d] = c

DigitValue(c) == CHOOSE d \in 0 .. 9 : DIGITS[d + 1] = c

RECURSIVE StrValue(_)
StrValue(s) ==
    IF s = <<>>
      THEN 0
      ELSE 10 * StrValue(SubSeq(s, 1, Len(s) - 1)) + DigitValue(s[Len(s)])

\* s is the decimal numeral of n: digits only, no leading zero, value n.
IsDecimal(s, n) ==
    /\ Len(s) >= 1
    /\ \A k \in 1 .. Len(s) : IsDigit(s[k])
    /\ (Len(s) > 1 => s[1] # "0")
    /\ StrValue(s) = n

\* ------------------------------------------------------------------ C4
\* C4: Matcher::new(divisor, word) fails with NumberIsZero exactly when
\* divisor = 0, whatever the word; for divisor > 0 it succeeds and the
\* Matcher holds exactly the given divisor and the given word.
C4_NewFailsIffZero ==
    ret.op = "new" =>
        LET number == ret.args[1]
            word == ret.args[2]
            r == ret.value
        IN  /\ (~r.ok) <=> (number = 0)
            /\ (~r.ok) => r.err = [kind |-> "NumberIsZero"]
            /\ r.ok => /\ r.val.number = number
                       /\ r.val.word = word
                       /\ Len(matchers) >= 1
                       /\ matchers[Len(matchers)] = r.val

\* A Matcher built from a positive divisor and a non-empty word.
C4_Witness ==
    /\ ret.op = "new"
    /\ ret.args[1] > 0
    /\ ret.args[2] = Fizz
    /\ ret.value.ok
    /\ ret.value.val = [number |-> ret.args[1], word |-> Fizz]

\* ------------------------------------------------------------------ C5
\* C5: for a constructed Matcher and a number, matches(number) is true
\* exactly when the divisor divides the number; so divisor 1 matches every
\* number, 0 is matched by every Matcher, and for a divisor d >= 2 the
\* numbers d - 1 and d + 1 do not match while d does.
C5_MatchesIffDivisible ==
    ret.op = "matches" =>
        LET d == ret.args[1].number
            n == ret.args[2]
        IN  /\ ret.value <=> Divides(d, n)
            /\ d = 1 => ret.value
            /\ n = 0 => ret.value
            /\ n = d => ret.value
            /\ (d >= 2 /\ (n = d - 1 \/ n = d + 1)) => ~ret.value

\* matches(d + 1) was asked of a Matcher with divisor d >= 2: false.
C5_Witness ==
    /\ ret.op = "matches"
    /\ ret.args[1].number >= 2
    /\ ret.args[2] = ret.args[1].number + 1
    /\ ret.value = FALSE

\* ------------------------------------------------------------------ C6
\* C6 as stated: text(number) returns the configured word if and only if
\* matches(number) is true, and the empty text otherwise.
C6_TextWordIffMatches ==
    ret.op = "text" =>
        LET self == ret.args[1]
            n == ret.args[2]
        IN  /\ (ret.value = self.word) <=> Divides(self.number, n)
            /\ (~Divides(self.number, n)) => ret.value = <<>>

\* C6 as amended: text(number) returns the configured word when
\* matches(number) is true and the empty text otherwise; when the word is
\* not empty, it returns the word if and only if matches(number) is true.
C6_TextWordOrEmpty ==
    ret.op = "text" =>
        LET self == ret.args[1]
            n == ret.args[2]
        IN  /\ Divides(self.number, n) => ret.value = self.word
            /\ (~Divides(self.number, n)) => ret.value = <<>>
            /\ self.word # <<>> =>
                  ((ret.value = self.word) <=> Divides(self.number, n))

\* text of a non-matching number, asked of a Matcher with a non-empty word.
C6_Witness ==
    /\ ret.op = "text"
    /\ ret.args[1].word # <<>>
    /\ ~Divides(ret.args[1].number, ret.args[2])
    /\ ret.value = <<>>

\* ------------------------------------------------------------------ C2
\* C2 as stated: line(number, matchers) is the decimal string of the number
\* exactly when no matcher of the list matches it, and whenever a matcher
\* matches it is the concatenation of the matching words and not the number.
C2_NumberExactlyWhenNoMatch ==
    ret.op = "line" =>
        LET n == ret.args[1]
            ms == ret.args[2]
        IN  /\ IsDecimal(ret.value, n) <=> ~AnyMatch(ms, n)
            /\ AnyMatch(ms, n) => ret.value = Flatten(MatchingWords(ms, n))

\* C2 as amended: line(number, matchers) is the concatenation of the words
\* of the matchers that match the number when that concatenation is not
\* empty, and the decimal string of the number when it is empty, that is
\* when no matcher matches (so always for the empty list) or when every
\* matching word is empty.
C2_ConcatenationOrNumber ==
    ret.op = "line" =>
        LET n == ret.args[1]
            ms == ret.args[2]
            c == Flatten(MatchingWords(ms, n))
        IN  /\ c # <<>> => ret.value = c
            /\ c = <<>> => IsDecimal(ret.value, n)
            /\ (~AnyMatch(ms, n)) => IsDecimal(ret.value, n)
            /\ ms = <<>> => IsDecimal(ret.value, n)

\* line of a number that a matcher with an empty word matches and no other
\* matcher does: the number comes back.
C2_Witness ==
    /\ ret.op = "line"
    /\ AnyMatch(ret.args[2], ret.args[1])
    /\ Flatten(MatchingWords(ret.args[2], ret.args[1])) = <<>>
    /\ IsDecimal(ret.value, ret.args[1])

\* ------------------------------------------------------------------ C7
\* C7: the words of the matchers that match the number appear in the result
\* of line in list order, each once per occurrence of its matcher in the
\* list (duplicate and overlapping divisors included), with nothing from the
\* matchers that do not match; on the reversed list the words come in the
\* reverse order.  (When every matching word is empty the words leave
\* nothing in the result, which is then the number: see C2.)
C7_WordsInListOrder ==
    ret.op = "line" =>
        LET n == ret.args[1]
            ms == ret.args[2]
            ws == MatchingWords(ms, n)
        IN  Len(ws) >= 1 =>
                IF Flatten(ws) # <<>>
                  THEN /\ ret.value = Flatten(ws)
                       /\ line(n, Reverse(ms)) = Flatten(Reverse(ws))
                  ELSE /\ IsDecimal(ret.value, n)
                       /\ IsDecimal(line(n, Reverse(ms)), n)

\* Two matchers with different non-empty words both match the number.
C7_Witness ==
    /\ ret.op = "line"
    /\ MatchingWords(ret.args[2], ret.args[1]) = <<Fizz, Buzz>>
    /\ ret.value = Fizz \o Buzz

\* ------------------------------------------------------------------ C10
\* C10: line never returns the empty string, also when every matching
\* matcher has an empty word, so every line fizzbuzz prints is non-empty.
C10_LineNeverEmpty ==
    /\ ret.op = "line" => Len(ret.value) >= 1
    /\ \A k \in 1 .. Len(stdout) : Len(stdout[k]) >= 1

\* fizzbuzz has printed a line for a number whose only matching words are
\* empty.
C10_Witness ==
    /\ ret.op = "fizzbuzz"
    /\ pc = "loop"
    /\ Len(stdout) >= 1
    /\ AnyMatch(matchers, i - 1)
    /\ Flatten(MatchingWords(matchers, i - 1)) = <<>>
    /\ Len(stdout[Len(stdout)]) >= 1

\* ------------------------------------------------------------------ C3
\* C3: for from > to, fizzbuzz returns the error FromBiggerThanTo carrying
\* the given from and to unchanged, prints no line and never enters its
\* loop: the check comes before the first line.
C3_FromBiggerThanTo ==
    (ret.op = "fizzbuzz" /\ ret.args[1] > ret.args[2]) =>
        /\ ret.value = [ok |-> FALSE,
                        err |-> [kind |-> "FromBiggerThanTo",
                                 from |-> ret.args[1],
                                 to |-> ret.args[2]]]
        /\ stdout = <<>>
        /\ pc = "idle"

\* fizzbuzz was called with from > to on a list with a matcher in it.
C3_Witness ==
    /\ ret.op = "fizzbuzz"
    /\ ret.args[1] > ret.args[2]
    /\ Len(ret.args[3]) >= 1
    /\ ~ret.value.ok
    /\ stdout = <<>>

\* ------------------------------------------------------------------ C1
\* The lines of the integers from .. from + count - 1, in ascending order.
ExpectedLines(from, count, ms) ==
    [k \in 1 .. count |-> line(from + k - 1, ms)]

\* C1: for from <= to, fizzbuzz prints exactly to - from + 1 lines, the
\* k-th being line(from + k, matchers) for k = 0 .. to - from, nothing
\* else, and returns Ok; while it runs, what it has printed is the lines
\* of from .. i - 1.
C1_OneLinePerInteger ==
    (ret.op = "fizzbuzz" /\ ret.args[1] <= ret.args[2]) =>
        LET from == ret.args[1]
            to == ret.args[2]
            ms == ret.args[3]
        IN  /\ pc = "loop" =>
                  /\ from <= i
                  /\ i <= to + 1
                  /\ stdout = ExpectedLines(from, i - from, ms)
            /\ pc = "idle" =>
                  /\ ret.value = [ok |-> TRUE, val |-> <<>>]
                  /\ stdout = ExpectedLines(from, to - from + 1, ms)
            /\ pc # "panicked"

\* ------------------------------------------------------------------ C8
\* C8: once from <= to has been checked, fizzbuzz never fails and returns
\* Ok only after it has printed the whole range, for every pair of usize
\* bounds, to = usize::MAX included.
C8_CompletesWholeRange ==
    (ret.op = "fizzbuzz" /\ ret.args[1] <= ret.args[2]) =>
        /\ pc # "panicked"
        /\ ret.value # Panicked
        /\ (pc = "idle" /\ ret.value.ok) =>
              Len(stdout) = ret.args[2] - ret.args[1] + 1

\* ------------------------------------------------------------------ C9
\* C9: every Matcher of the list has divisor # 0 in every state; matches,
\* text, line and fizzbuzz, in any sequence, leave the list (divisors,
\* words, order, length) as it is; and a call repeated with the same
\* inputs returns the same result.
C9_MatchersImmutable ==
    [][ /\ \A k \in 1 .. Len(matchers') : matchers'[k].number # 0
        /\ ret'.op # "new" => matchers' = matchers
        /\ ret'.op = "new" =>
              /\ Len(matchers') >= Len(matchers)
              /\ SubSeq(matchers', 1, Len(matchers)) = matchers
        /\ (/\ pc = "idle"
            /\ pc' = "idle"
            /\ ret'.op = ret.op
            /\ ret'.op # "new"
            /\ ret'.args = ret.args) => ret'.value = ret.value
      ]_vars

\* A call was made on a list of two matchers, the second built after the
\* first.
C9_Witness ==
    /\ Len(matchers) = MaxMatchers
    /\ \A k \in 1 .. Len(matchers) : matchers[k].number # 0
    /\ ret.op \in {"matches", "text", "line", "fizzbuzz"}
    /\ pc = "idle"

====
